---- MODULE Spec2Model ----
(***************************************************************************)
(* A model of ngs/dropbox-mcp:                                             *)
(*   - auth.StartOAuthFlow (internal/auth, the second package of           *)
(*     src/internal/config/config.go): the calling goroutine, the          *)
(*     goroutine running server.Serve, one goroutine per HTTP request,     *)
(*     the two buffered channels and the time.After timer;                 *)
(*   - dropbox.Client.uploadLarge (src/unnamed/part_001): the read /       *)
(*     append loop of the upload session.                                  *)
(* One run of the model executes one of the two operations: the server     *)
(* handles one tool call at a time.                                        *)
(***************************************************************************)
EXTENDS Integers, Sequences, FiniteSets, TLC

\* ------------------------------------------------------------- bounds
\* HTTP requests that reach the callback listener during one flow.
MaxReqs == 2
\* Largest source handed to uploadLarge, in bytes.
MaxSize == 5
\* The chunk size of uploadLarge, scaled down from 4 * 1024 * 1024 so that
\* sources of several chunks are within reach.
chunkSize == 2
\* Largest payload of the size-only model of Upload, in chunks of 4 MiB.
MaxChunks == 50
\* The last value of the clock, in minutes.
MaxTime == 6
\* Minutes for which a newly issued access token is valid.
Lifetime == 7

\* ---------------------------------------------------------- constants
\* make(chan *AuthResult, 1), make(chan error, 1)
ChanCap == 1
\* const chunkSize = 4 * 1024 * 1024 (part_001 line 163), in bytes.
ChunkBytes == 4194304
\* 150*1024*1024 (part_001 line 151), in bytes.
LargeThreshold == 157286400
\* 5 * time.Minute (config.go line 89), in minutes.
FiveMinutes == 5

\* ------------------------------------------------------------- values
\* Values generateState can produce (32 hex characters in the program).
States == {"s1", "s2"}

\* What the provider's token endpoint can answer to Exchange: an
\* oauth2.Token, with or without a refresh token and an expiry.
OAuthTokens ==
    { [AccessToken |-> "at1", RefreshToken |-> "rt1", Expiry |-> 1],
      [AccessToken |-> "at2", RefreshToken |-> "",    Expiry |-> 0] }

NoToken == [AccessToken |-> "", RefreshToken |-> "", Expiry |-> 0]
NoResult == [AccessToken |-> "", RefreshToken |-> "", ExpiresAt |-> 0]

\* The query of an HTTP request to the listener.  A provider redirect
\* carries either a code or an error (with or without a description).
Queries ==
    { q \in [path : {"/callback", "/favicon.ico"}, state : States,
             code : {"", "c1"},
             error_description : {"", "The user denied access"},
             error : {"", "access_denied"}] :
        /\ q.code # "" => (q.error = "" /\ q.error_description = "")
        /\ q.path # "/callback" => q.code # ""
        /\ (q.error_description # "" => q.error # "") }

NoQuery == [path |-> "", state |-> "", code |-> "", error_description |-> "",
            error |-> ""]

\* A goroutine serving one request: pc, the request's query (kept while
\* the goroutine runs), the error it is about to send, the token the
\* exchange returned, the result built from it and the status of the
\* response once it is written.
IdleReq == [pc |-> "new", q |-> NoQuery, msg |-> "", token |-> NoToken,
            result |-> NoResult, status |-> 0]
DoneReq == [IdleReq EXCEPT !.pc = "done"]

\* Lines 176-179: http.NotFound; q is history, the query so answered.
NotFoundReq(q) == [DoneReq EXCEPT !.status = 404, !.q = q]

\* Lines 184, 195, 203 and 215-230: the status of the response written
\* after the send.
ErrorStatus(msg) ==
    IF msg = "token exchange failed: invalid_grant" THEN 500 ELSE 400

\* What StartOAuthFlow has returned: nothing yet, (result, nil) or
\* (nil, err).  via and q tell which statement returned and, for a value
\* received from a channel, the query of the request that sent it.
NoRet == [kind |-> "none", result |-> NoResult, msg |-> "", via |-> "",
          q |-> NoQuery, token |-> NoToken]

\* Sources of uploadLarge: every byte string of at most MaxSize bytes.
Bytes == {0, 1}
Sources == UNION {[1..n -> Bytes] : n \in 0..MaxSize}

\* The CommitInfo built by Upload (path, mode; autorename is always true).
CommitInfos == {[path |-> "/a.bin", mode |-> "add"],
                [path |-> "/a.bin", mode |-> "overwrite"]}
NoCommitInfo == [path |-> "", mode |-> ""]

\* Session ids UploadSessionStart can answer with.
SessionIds == {"sid1", "sid2"}

VARIABLES
    flowPc,       \* position of the goroutine that called StartOAuthFlow
    state,        \* the generated state ("" before generateState)
    listener,     \* "none" | "open" | "closed"
    inShutdown,   \* server.Close() has been called
    servePc,      \* the goroutine of line 234: none|spawned|serving|send_err|done
    resultChan,   \* buffered channel, as a sequence of at most ChanCap items
    errorChan,    \* buffered channel, as a sequence of at most ChanCap items
    reqs,         \* 1..MaxReqs -> the goroutine serving that request
    timer,        \* the time.After timer: none | armed | fired
    ret,          \* what StartOAuthFlow returned
    first,        \* history: the first signal delivered (or the timeout)
    compared,     \* history: requests whose state was compared
    exchanges,    \* history: token exchanges performed
    upPc,         \* uploadLarge: idle | read | append | finish | done
    source,       \* the bytes behind reader
    pos,          \* how many of them reader has handed out
    commitInfo,   \* the commitInfo argument
    sessionId,    \* session.SessionId
    offset,       \* the local offset
    n,            \* n of the last reader.Read
    err,          \* err of the last reader.Read: "nil" | "EOF" | "error"
    calls,        \* history: the provider calls issued, in order
    upRet,        \* what uploadLarge returned: "" | "ok" | an error
    closed,       \* history: the sessions of the Upload calls that returned
    szPc,         \* Upload by sizes: idle|direct|start|read|append|finish|done
    szEntry,      \* the method entered: "Upload" | "uploadLarge"
    dataLen,      \* len(data), the decoded payload
    mode,         \* the mode argument of Upload
    szCommit,     \* the commitInfo built by Upload
    szReader,     \* the io.Reader read from: "bytes" | "short"
    rdPos,        \* the position of the reader
    szOffset,     \* offset of uploadLarge
    szN,          \* n of the last Read
    szErr,        \* err of the last Read
    szCalls,      \* history: the provider calls, with offsets and lengths
    szRet,        \* what was returned: "" | "ok" | an error
    toolPc,       \* the server: start|idle|newclient|refresh|save|valid|api|
                  \*             flow|authsave|done
    cfg,          \* h.config, the Config in memory
    disk,         \* the config file: <<>> when missing, else <<Config>>
    now,          \* time.Now(), in minutes
    tool,         \* the tool being called
    args,         \* client_id and client_secret of dropbox_auth
    missing,      \* the required parameters that the tool call left empty
    cfg0,         \* history: cfg when the tool call began
    disk0,        \* history: disk when the tool call began
    steps,        \* history: what the tool call has done, in order
    granted,      \* history: the AuthResult the call's flow or refresh gave
    needs,        \* what NeedsRefresh() returned in this tool call
    valid,        \* what IsTokenValid() returned in this tool call
    askedAt,      \* history: time.Now() in the last of these two
    toolRet       \* what the tool call returned: "" while it runs

authVars == <<flowPc, state, listener, inShutdown, servePc, resultChan,
              errorChan, reqs, timer, ret, first, compared, exchanges>>

upVars == <<upPc, source, pos, commitInfo, sessionId, offset, n, err, calls,
            upRet, closed>>

szVars == <<szPc, szEntry, dataLen, mode, szCommit, szReader, rdPos, szOffset, szN, szErr,
            szCalls, szRet>>

toolVars == <<toolPc, cfg, disk, now, tool, args, missing, cfg0, disk0, steps, granted,
              needs, valid, askedAt, toolRet>>

vars == <<authVars, upVars, szVars, toolVars>>

ReqIds == 1..MaxReqs

\* ------------------------------------------------------ StartOAuthFlow

AuthInit ==
    /\ flowPc = "idle"
    /\ state = ""
    /\ listener = "none"
    /\ inShutdown = FALSE
    /\ servePc = "none"
    /\ resultChan = <<>>
    /\ errorChan = <<>>
    /\ reqs = [i \in ReqIds |-> IdleReq]
    /\ timer = "none"
    /\ ret = NoRet
    /\ first = [kind |-> "none", msg |-> "", result |-> NoResult]
    /\ compared = 0
    /\ exchanges = 0

\* A signal as the history variable `first` records it.
Signal(kind, msg, result) == [kind |-> kind, msg |-> msg, result |-> result]

NoteFirst(sig) == first' = IF first.kind = "none" THEN sig ELSE first

\* Mutant of DeferredClose: the deferred Close is missing.
DeferredCloseMissing(l) == l

\* defer listener.Close() (line 150): runs at every return after line 146.
DeferredClose(l) == IF l = "none" THEN "none" ELSE "closed"

\* return nil, fmt.Errorf(...) from the calling goroutine.
ReturnError(msg, via) ==
    /\ ret' = [NoRet EXCEPT !.kind = "error", !.msg = msg, !.via = via]
    /\ flowPc' = "returned"

\* Lines 141-144: generateState.
GenerateState ==
    /\ flowPc = "idle"
    /\ upPc = "idle"
    /\ closed = {}
    /\ szPc = "idle"
    /\ toolPc = "start"
    /\ \/ /\ \E s \in States : state' = s
          /\ flowPc' = "listen"
          /\ UNCHANGED <<ret, listener>>
       \/ /\ ReturnError("failed to generate state: rand", "generateState")
          /\ listener' = DeferredClose(listener)
          /\ UNCHANGED state
    /\ UNCHANGED <<inShutdown, servePc, resultChan, errorChan, reqs, timer,
                   first, compared, exchanges>>
    /\ UNCHANGED <<upVars, szVars, toolVars>>

\* Lines 146-150: net.Listen.
Listen ==
    /\ flowPc = "listen"
    /\ \/ /\ listener' = "open"
          /\ flowPc' = "serve"
          /\ UNCHANGED ret
       \/ /\ ReturnError("failed to start local server: bind", "listen")
          /\ listener' = DeferredClose(listener)
    /\ UNCHANGED <<state, inShutdown, servePc, resultChan, errorChan, reqs,
                   timer, first, compared, exchanges>>
    /\ UNCHANGED <<upVars, szVars, toolVars>>

\* Lines 234-238: go func() { server.Serve(listener) ... }().
GoServe ==
    /\ flowPc = "serve"
    /\ servePc' = "spawned"
    /\ flowPc' = "browser"
    /\ UNCHANGED <<state, listener, inShutdown, resultChan, errorChan, reqs,
                   timer, ret, first, compared, exchanges>>
    /\ UNCHANGED <<upVars, szVars, toolVars>>

\* Lines 240-242: browser.OpenURL.
OpenURL ==
    /\ flowPc = "browser"
    /\ \/ /\ flowPc' = "select"
          /\ UNCHANGED <<ret, listener>>
       \/ /\ ReturnError("failed to open browser: exec", "browser")
          /\ listener' = DeferredClose(listener)
    /\ UNCHANGED <<state, inShutdown, servePc, resultChan, errorChan, reqs,
                   timer, first, compared, exchanges>>
    /\ UNCHANGED <<upVars, szVars, toolVars>>

\* ------------------------------------------------- the two channels

\* An item of errorChan / resultChan.  q and token are history: the query
\* of the request whose goroutine sent the item and the oauth2.Token its
\* exchange returned.
ErrorItem(msg, q) == [msg |-> msg, q |-> q]
ResultItem(result, q, token) == [result |-> result, q |-> q, token |-> token]

\* case err := <-errorChan (lines 248-250): what the flow will return.
RecvError(item) ==
    [NoRet EXCEPT !.kind = "error", !.msg = item.msg, !.via = "errorChan",
                  !.q = item.q]

\* case result := <-resultChan (lines 245-247).
RecvResult(item) ==
    [NoRet EXCEPT !.kind = "result", !.result = item.result,
                  !.via = "resultChan", !.q = item.q, !.token = item.token]

\* errorChan <- err.  A receiver blocked in the select takes the value
\* directly; otherwise it goes to the buffer if there is room; otherwise
\* the sender blocks (the action is disabled).
SendError(item) ==
    /\ IF flowPc = "blocked"
       THEN /\ ret' = RecvError(item)
            /\ flowPc' = "close"
            /\ UNCHANGED errorChan
       ELSE /\ Len(errorChan) < ChanCap
            /\ errorChan' = Append(errorChan, item)
            /\ UNCHANGED <<ret, flowPc>>
    /\ NoteFirst(Signal("error", item.msg, NoResult))
    /\ UNCHANGED resultChan

\* resultChan <- result (line 213).
SendResult(item) ==
    /\ IF flowPc = "blocked"
       THEN /\ ret' = RecvResult(item)
            /\ flowPc' = "close"
            /\ UNCHANGED resultChan
       ELSE /\ Len(resultChan) < ChanCap
            /\ resultChan' = Append(resultChan, item)
            /\ UNCHANGED <<ret, flowPc>>
    /\ NoteFirst(Signal("result", "", item.result))
    /\ UNCHANGED errorChan

\* ------------------------------------------- the select, lines 244-254

\* The select is evaluated: time.After starts the timer; a case that is
\* ready is taken, any of them when several are (Go chooses among the
\* ready cases at random); with none ready the goroutine blocks.
SelectEval ==
    /\ flowPc = "select"
    /\ timer' = "armed"
    /\ \/ /\ resultChan # <<>>
          /\ ret' = RecvResult(Head(resultChan))
          /\ resultChan' = Tail(resultChan)
          /\ flowPc' = "close"
          /\ UNCHANGED errorChan
       \/ /\ errorChan # <<>>
          /\ ret' = RecvError(Head(errorChan))
          /\ errorChan' = Tail(errorChan)
          /\ flowPc' = "close"
          /\ UNCHANGED resultChan
       \/ /\ resultChan = <<>>
          /\ errorChan = <<>>
          /\ flowPc' = "blocked"
          /\ UNCHANGED <<ret, resultChan, errorChan>>
    /\ UNCHANGED <<state, listener, inShutdown, servePc, reqs, first,
                   compared, exchanges>>
    /\ UNCHANGED <<upVars, szVars, toolVars>>

\* Mutant of TimerFire: the timer fires and the select is not woken.
TimerFireLost ==
    /\ timer = "armed"
    /\ flowPc = "blocked"
    /\ timer' = "fired"
    /\ UNCHANGED <<flowPc, ret, first, state, listener, inShutdown, servePc,
                   resultChan, errorChan, reqs, compared, exchanges>>
    /\ UNCHANGED <<upVars, szVars, toolVars>>

\* case <-time.After(5 * time.Minute) (lines 251-253): the timer fires
\* while the select is blocked.  (Once another case has been taken the
\* timer's channel is never read.)
TimerFire ==
    /\ timer = "armed"
    /\ flowPc = "blocked"
    /\ timer' = "fired"
    /\ ret' = [NoRet EXCEPT !.kind = "error",
                            !.msg = "authentication timeout",
                            !.via = "timeout"]
    /\ flowPc' = "close"
    /\ NoteFirst(Signal("timeout", "authentication timeout", NoResult))
    /\ UNCHANGED <<state, listener, inShutdown, servePc, resultChan,
                   errorChan, reqs, compared, exchanges>>
    /\ UNCHANGED <<upVars, szVars, toolVars>>

\* server.Close() and the return of the case taken, with the deferred
\* listener.Close().
CloseAndReturn ==
    /\ flowPc = "close"
    /\ inShutdown' = TRUE
    /\ listener' = DeferredClose("closed")
    /\ flowPc' = "returned"
    /\ UNCHANGED <<state, servePc, resultChan, errorChan, reqs, timer, ret,
                   first, compared, exchanges>>
    /\ UNCHANGED <<upVars, szVars, toolVars>>

\* ------------------------------- the Serve goroutine, lines 234-238

\* server.Serve(listener) returns ErrServerClosed once server.Close()
\* was called, and the Accept error when only the listener was closed
\* (the deferred Close of the browser path); the latter is sent on
\* errorChan.
ServeExit ==
    IF inShutdown THEN "done"
    ELSE IF listener = "closed" THEN "send_err"
    ELSE "serving"

ServeStep ==
    /\ servePc \in {"spawned", "serving"}
    /\ servePc' = ServeExit
    /\ servePc' # servePc
    /\ UNCHANGED <<flowPc, state, listener, inShutdown, resultChan,
                   errorChan, reqs, timer, ret, first, compared, exchanges>>
    /\ UNCHANGED <<upVars, szVars, toolVars>>

ServeSendErr ==
    /\ servePc = "send_err"
    /\ SendError(ErrorItem("accept: use of closed network connection",
                           NoQuery))
    /\ servePc' = "done"
    /\ UNCHANGED <<state, listener, inShutdown, reqs, timer, compared,
                   exchanges>>
    /\ UNCHANGED <<upVars, szVars, toolVars>>

\* ------------------------------------ the handler, lines 175-231

\* Mutant of ErrorMsg: error_description is not looked at.
ErrorMsgNoDescription(q) == q.error

\* Lines 190-193: the provider's error text.
ErrorMsg(q) == IF q.error_description = "" THEN q.error
               ELSE q.error_description

\* Mutant of AuthResultOf: the two tokens are swapped.
AuthResultSwapped(token) ==
    [AccessToken |-> token.RefreshToken, RefreshToken |-> token.AccessToken,
     ExpiresAt |-> token.Expiry]

\* Lines 207-211: the AuthResult built from the oauth2.Token.
AuthResultOf(token) ==
    [AccessToken |-> token.AccessToken, RefreshToken |-> token.RefreshToken,
     ExpiresAt |-> token.Expiry]

\* Mutant of Handle: the path is not compared.
HandleAnyPath(q) ==
    IF q.state # state
      THEN [IdleReq EXCEPT !.pc = "send_err", !.q = q,
                           !.msg = "state mismatch"]
    ELSE IF q.code = ""
      THEN [IdleReq EXCEPT !.pc = "send_err", !.q = q,
                           !.msg = "authorization failed: " \o ErrorMsg(q)]
    ELSE [IdleReq EXCEPT !.pc = "exchange", !.q = q]

\* Mutant of Handle: the state is not compared.
HandleNoStateCheck(q) ==
    IF q.path # "/callback" THEN NotFoundReq(q)
    ELSE IF q.code = ""
      THEN [IdleReq EXCEPT !.pc = "send_err", !.q = q,
                           !.msg = "authorization failed: " \o q.error]
    ELSE [IdleReq EXCEPT !.pc = "exchange", !.q = q]

\* Lines 176-197: the handler up to its first blocking statement.
Handle(q) ==
    IF q.path # "/callback" THEN NotFoundReq(q)
    ELSE IF q.state # state
      THEN [IdleReq EXCEPT !.pc = "send_err", !.q = q,
                           !.msg = "state mismatch"]
    ELSE IF q.code = ""
      THEN [IdleReq EXCEPT !.pc = "send_err", !.q = q,
                           !.msg = "authorization failed: " \o ErrorMsg(q)]
    ELSE [IdleReq EXCEPT !.pc = "exchange", !.q = q]

\* A request is accepted and its goroutine runs the handler's checks.
Request(i, q) ==
    /\ servePc = "serving"
    /\ listener = "open"
    /\ ~inShutdown
    /\ reqs[i].pc = "new"
    /\ i > 1 => reqs[i - 1].pc # "new"
    /\ reqs' = [reqs EXCEPT ![i] = Handle(q)]
    /\ compared' = IF q.path = "/callback" THEN compared + 1 ELSE compared
    /\ UNCHANGED <<flowPc, state, listener, inShutdown, servePc, resultChan,
                   errorChan, timer, ret, first, exchanges>>
    /\ UNCHANGED <<upVars, szVars, toolVars>>

\* Lines 199-211: oauth2Config.Exchange(ctx, code).
Exchange(i) ==
    /\ reqs[i].pc = "exchange"
    /\ \/ \E token \in OAuthTokens :
            reqs' = [reqs EXCEPT ![i].pc = "send_res", ![i].token = token,
                                 ![i].result = AuthResultOf(token)]
       \/ reqs' = [reqs EXCEPT ![i].pc = "send_err",
                       ![i].msg = "token exchange failed: invalid_grant"]
    /\ exchanges' = exchanges + 1
    /\ UNCHANGED <<flowPc, state, listener, inShutdown, servePc, resultChan,
                   errorChan, timer, ret, first, compared>>
    /\ UNCHANGED <<upVars, szVars, toolVars>>

\* Lines 183, 194, 202: errorChan <- ...; then the response is written.
HandlerSendErr(i) ==
    /\ reqs[i].pc = "send_err"
    /\ SendError(ErrorItem(reqs[i].msg, reqs[i].q))
    /\ reqs' = [reqs EXCEPT ![i] =
                   [DoneReq EXCEPT !.status = ErrorStatus(reqs[i].msg)]]
    /\ UNCHANGED <<state, listener, inShutdown, servePc, timer, compared,
                   exchanges>>
    /\ UNCHANGED <<upVars, szVars, toolVars>>

\* Line 213: resultChan <- result; then the success page is written.
HandlerSendRes(i) ==
    /\ reqs[i].pc = "send_res"
    /\ SendResult(ResultItem(reqs[i].result, reqs[i].q, reqs[i].token))
    /\ reqs' = [reqs EXCEPT ![i] = [DoneReq EXCEPT !.status = 200]]
    /\ UNCHANGED <<state, listener, inShutdown, servePc, timer, compared,
                   exchanges>>
    /\ UNCHANGED <<upVars, szVars, toolVars>>

AuthNext ==
    \/ GenerateState
    \/ Listen
    \/ GoServe
    \/ OpenURL
    \/ SelectEval
    \/ TimerFire
    \/ CloseAndReturn
    \/ ServeStep
    \/ ServeSendErr
    \/ \E i \in ReqIds, q \in Queries : Request(i, q)
    \/ \E i \in ReqIds : Exchange(i)
    \/ \E i \in ReqIds : HandlerSendErr(i)
    \/ \E i \in ReqIds : HandlerSendRes(i)

\* ---------------------------------- uploadLarge, part_001 lines 162-199

UploadInit ==
    /\ upPc = "idle"
    /\ source = <<>>
    /\ pos = 0
    /\ commitInfo = NoCommitInfo
    /\ sessionId = ""
    /\ offset = 0
    /\ n = 0
    /\ err = "nil"
    /\ calls = <<>>
    /\ upRet = ""
    /\ closed = {}

\* A provider call as the history records it.
StartCall(ok) == [op |-> "start", sid |-> "", offset |-> 0, data |-> <<>>,
                  commit |-> NoCommitInfo, ok |-> ok]
AppendCall(sid, off, data, ok) ==
    [op |-> "append", sid |-> sid, offset |-> off, data |-> data,
     commit |-> NoCommitInfo, ok |-> ok]
FinishCall(sid, off, commit, ok) ==
    [op |-> "finish", sid |-> sid, offset |-> off, data |-> <<>>,
     commit |-> commit, ok |-> ok]

\* Lines 165-173: uploadLarge is entered with a commitInfo and a reader
\* and starts the session with an empty body.
\* The provider opens a new session on every start call: the id it
\* returns is none of those it returned before.
NewSessions == SessionIds \ closed

UploadSessionStart ==
    /\ upPc = "idle"
    /\ flowPc = "idle"
    /\ szPc = "idle"
    /\ toolPc = "start"
    /\ \E src \in Sources, ci \in CommitInfos :
         /\ source' = src
         /\ commitInfo' = ci
    /\ \/ /\ \E sid \in NewSessions : sessionId' = sid
          /\ calls' = Append(calls, StartCall(TRUE))
          /\ upPc' = "read"
          /\ UNCHANGED upRet
       \/ /\ calls' = Append(calls, StartCall(FALSE))
          /\ upRet' = "failed to start upload session"
          /\ upPc' = "done"
          /\ UNCHANGED sessionId
    /\ UNCHANGED <<pos, offset, n, err, closed>>
    /\ UNCHANGED <<authVars, szVars, toolVars>>

\* What reader.Read(buffer) may return with `left` bytes not yet read
\* (the io.Reader contract): up to min(len(buffer), left) bytes with a
\* nil error, the last bytes together with io.EOF, (0, io.EOF) at the
\* end, or any count with another error.  A (0, nil) read changes
\* nothing and is left out.
Reads(left) ==
    LET most == IF left < chunkSize THEN left ELSE chunkSize
    IN  {<<k, "nil">> : k \in 1..most}
          \cup {<<k, "EOF">> : k \in (IF left <= chunkSize THEN {left} ELSE {})}
          \cup {<<k, "error">> : k \in 0..most}

\* Mutant of AfterChunk: a read error other than io.EOF is not looked at.
AfterChunkIgnoresError(e) == IF e = "EOF" THEN "finish" ELSE "read"

\* Lines 187-192, after the chunk (if any) was appended.
AfterChunk(e) == IF e = "EOF" THEN "finish"
                 ELSE IF e # "nil" THEN "done"
                 ELSE "read"

\* Mutant of AfterRead: io.EOF is looked at before the bytes read.
AfterReadEofFirst(k, e) ==
    IF e = "EOF" THEN "finish" ELSE IF k > 0 THEN "append" ELSE AfterChunk(e)

\* Lines 176-177 (and 187-192 when n = 0): one turn of the loop up to the
\* append call.
AfterRead(k, e) == IF k > 0 THEN "append" ELSE AfterChunk(e)

\* return nil, fmt.Errorf("failed to read chunk: %w", err)
ReadFailure(pc, e) ==
    IF pc = "done" /\ e = "error" THEN "failed to read chunk" ELSE ""

Read ==
    /\ upPc = "read"
    /\ \E r \in Reads(Len(source) - pos) :
         /\ n' = r[1]
         /\ err' = r[2]
         /\ pos' = pos + r[1]
         /\ upPc' = AfterRead(r[1], r[2])
         /\ upRet' = ReadFailure(AfterRead(r[1], r[2]), r[2])
    /\ UNCHANGED <<source, commitInfo, sessionId, offset, calls, closed>>
    /\ UNCHANGED <<authVars, szVars, toolVars>>

\* Mutant of NewUploadSessionCursor: the cursor names the session of an
\* earlier call when there is one.
NewUploadSessionCursorOfClosed(sid, off) ==
    [session_id |-> IF closed = {} THEN sid ELSE CHOOSE s \in closed : TRUE,
     offset |-> off]

\* files.NewUploadSessionCursor(session.SessionId, offset), lines 178, 195.
NewUploadSessionCursor(sid, off) == [session_id |-> sid, offset |-> off]

\* The cursor of the next append or finish call.
Cursor == NewUploadSessionCursor(sessionId, offset)

\* buffer[:n] of the last read.
Chunk == SubSeq(source, pos - n + 1, pos)

\* Mutant of NextOffset: the offset advances by the buffer size.
NextOffsetByBuffer(off, k) == off + chunkSize

\* Line 184: offset += uint64(n).
NextOffset(off, k) == off + k

\* Lines 178-185 and 187-192: the append call at the current offset.
UploadSessionAppendV2 ==
    /\ upPc = "append"
    /\ \/ /\ calls' = Append(calls,
                           AppendCall(Cursor.session_id, Cursor.offset,
                                      Chunk, TRUE))
          /\ offset' = NextOffset(offset, n)
          /\ upPc' = AfterChunk(err)
          /\ upRet' = ReadFailure(AfterChunk(err), err)
       \/ /\ calls' = Append(calls,
                           AppendCall(Cursor.session_id, Cursor.offset,
                                      Chunk, FALSE))
          /\ upRet' = "failed to append chunk"
          /\ upPc' = "done"
          /\ UNCHANGED offset
    /\ UNCHANGED <<source, pos, commitInfo, sessionId, n, err, closed>>
    /\ UNCHANGED <<authVars, szVars, toolVars>>

\* Lines 195-198: the finish call with the cursor and the commitInfo.
UploadSessionFinish ==
    /\ upPc = "finish"
    /\ \E ok \in BOOLEAN :
         /\ calls' = Append(calls,
                           FinishCall(Cursor.session_id, Cursor.offset,
                                      commitInfo, ok))
         /\ upRet' = IF ok THEN "ok" ELSE "finish failed"
    /\ upPc' = "done"
    /\ UNCHANGED <<source, pos, commitInfo, sessionId, offset, n, err, closed>>
    /\ UNCHANGED <<authVars, szVars, toolVars>>

\* uploadLarge has returned to Upload and Upload to its caller: session,
\* offset and buffer were locals of that call and are gone; the session
\* it opened, if any, is remembered.  The next call of Upload starts from
\* the same state as the first.
UploadReturned ==
    /\ upPc = "done"
    /\ closed' = closed \cup ({sessionId} \ {""})
    /\ upPc' = "idle"
    /\ source' = <<>>
    /\ pos' = 0
    /\ commitInfo' = NoCommitInfo
    /\ sessionId' = ""
    /\ offset' = 0
    /\ n' = 0
    /\ err' = "nil"
    /\ calls' = <<>>
    /\ upRet' = ""
    /\ UNCHANGED <<authVars, szVars, toolVars>>

UploadNext ==
    \/ UploadSessionStart
    \/ Read
    \/ UploadSessionAppendV2
    \/ UploadSessionFinish
    \/ UploadReturned

\* ------------- Upload and uploadLarge by sizes, part_001 lines 125-199
\* The same code with the payload as a length only, so that the real
\* chunk size and threshold are within reach.

\* Payload lengths: around every multiple of the chunk size, and around
\* the threshold.
DataLens ==
    ({k * ChunkBytes + r : k \in 0..MaxChunks, r \in {-1, 0, 1}}
        \cap (0..(MaxChunks * ChunkBytes)))
    \cup {LargeThreshold - 1, LargeThreshold, LargeThreshold + 1}

\* The mode argument of Upload and the times time.Now() can give.
Modes == {"overwrite", "add", ""}
ClientModifieds == {1, 2}

\* The readers: the bytes.Reader of line 149, and an io.Reader that fills
\* the buffer while a whole chunk remains and may return the rest in
\* pieces, or together with io.EOF.
Readers == {"bytes", "short"}

NoSzCommit == [mode |-> "", autorename |-> FALSE, clientModified |-> 0]

SizedInit ==
    /\ szPc = "idle"
    /\ szEntry = ""
    /\ dataLen = 0
    /\ mode = ""
    /\ szCommit = NoSzCommit
    /\ szReader = "bytes"
    /\ rdPos = 0
    /\ szOffset = 0
    /\ szN = 0
    /\ szErr = "nil"
    /\ szCalls = <<>>
    /\ szRet = ""

\* Lines 139-147: the commitInfo.
WriteMode(m) == IF m = "overwrite" THEN "overwrite" ELSE "add"

CommitInfoOf(m, t) ==
    [mode |-> WriteMode(m), autorename |-> TRUE, clientModified |-> t]

\* Mutant of TakesLargePath: a payload of exactly the threshold is chunked.
TakesLargePathAtThreshold(len) == len >= LargeThreshold

\* Line 151: len(data) > 150*1024*1024.
TakesLargePath(len) == len > LargeThreshold

\* A provider call of this model as the history records it.
SizedCall(op, off, len, commit, ok) ==
    [op |-> op, offset |-> off, len |-> len, commit |-> commit, ok |-> ok]

\* Lines 125-153: Upload up to the choice of the path.
UploadCall ==
    /\ szPc = "idle"
    /\ flowPc = "idle"
    /\ upPc = "idle"
    /\ closed = {}
    /\ toolPc = "start"
    /\ \E len \in DataLens, m \in Modes, t \in ClientModifieds :
         /\ dataLen' = len
         /\ mode' = m
         /\ szCommit' = CommitInfoOf(m, t)
         /\ szPc' = IF TakesLargePath(len) THEN "start" ELSE "direct"
    /\ szEntry' = "Upload"
    /\ szReader' = "bytes"
    /\ UNCHANGED <<rdPos, szOffset, szN, szErr, szCalls, szRet>>
    /\ UNCHANGED <<authVars, upVars, toolVars>>

\* Line 162: uploadLarge entered with a commitInfo and an io.Reader over
\* a source of any length.
UploadLargeCall ==
    /\ szPc = "idle"
    /\ flowPc = "idle"
    /\ upPc = "idle"
    /\ closed = {}
    /\ toolPc = "start"
    /\ \E len \in DataLens, m \in {"overwrite", "add"},
          t \in ClientModifieds :
         /\ dataLen' = len
         /\ mode' = m
         /\ szCommit' = CommitInfoOf(m, t)
    /\ szReader' \in Readers
    /\ szPc' = "start"
    /\ szEntry' = "uploadLarge"
    /\ UNCHANGED <<rdPos, szOffset, szN, szErr, szCalls, szRet>>
    /\ UNCHANGED <<authVars, upVars, toolVars>>

\* Lines 155-159: the single-request upload with the commitInfo's mode,
\* autorename and client-modified time.
DirectUpload ==
    /\ szPc = "direct"
    /\ \E ok \in BOOLEAN :
         /\ szCalls' = Append(szCalls,
               SizedCall("upload", 0, dataLen,
                         [mode |-> szCommit.mode,
                          autorename |-> szCommit.autorename,
                          clientModified |-> szCommit.clientModified], ok))
         /\ szRet' = IF ok THEN "ok" ELSE "upload failed"
    /\ szPc' = "done"
    /\ UNCHANGED <<szEntry, dataLen, mode, szCommit, szReader, rdPos,
                   szOffset, szN, szErr>>
    /\ UNCHANGED <<authVars, upVars, toolVars>>

\* Lines 165-173.
SizedStart ==
    /\ szPc = "start"
    /\ \/ /\ szCalls' = Append(szCalls,
                               SizedCall("start", 0, 0, NoSzCommit, TRUE))
          /\ szPc' = "read"
          /\ UNCHANGED szRet
       \/ /\ szCalls' = Append(szCalls,
                               SizedCall("start", 0, 0, NoSzCommit, FALSE))
          /\ szRet' = "failed to start upload session"
          /\ szPc' = "done"
    /\ UNCHANGED <<szEntry, dataLen, mode, szCommit, szReader, rdPos,
                   szOffset, szN, szErr>>
    /\ UNCHANGED <<authVars, upVars, toolVars>>

\* Mutant of BytesRead: the buffer is one byte short of the chunk size.
BytesReadShortBuffer(left) ==
    IF left = 0 THEN <<0, "EOF">>
    ELSE IF left < ChunkBytes - 1 THEN <<left, "nil">>
    ELSE <<ChunkBytes - 1, "nil">>

\* Line 176 on the bytes.Reader of line 149 with a buffer of chunkSize
\* bytes: (0, io.EOF) at the end, otherwise as many bytes as fit.
BytesRead(left) ==
    IF left = 0 THEN <<0, "EOF">>
    ELSE IF left < ChunkBytes THEN <<left, "nil">>
    ELSE <<ChunkBytes, "nil">>

\* Line 176 on an io.Reader that fills the buffer whenever a whole
\* chunk remains: the rest comes whole or, once, after a first piece of
\* one byte, and the last bytes may come together with io.EOF.
ShortReads(at, left) ==
    IF left = 0 THEN {<<0, "EOF">>}
    ELSE IF left < ChunkBytes
         THEN {<<left, "nil">>, <<left, "EOF">>}
              \cup (IF at % ChunkBytes = 0 /\ left > 1
                    THEN {<<1, "nil">>} ELSE {})
    ELSE IF left = ChunkBytes
         THEN {<<ChunkBytes, "nil">>, <<ChunkBytes, "EOF">>}
    ELSE {<<ChunkBytes, "nil">>}

SizedReads(reader, at, left) ==
    IF reader = "bytes" THEN {BytesRead(left)} ELSE ShortReads(at, left)

SizedRead ==
    /\ szPc = "read"
    /\ \E r \in SizedReads(szReader, rdPos, dataLen - rdPos) :
           /\ szN' = r[1]
           /\ szErr' = r[2]
           /\ rdPos' = rdPos + r[1]
           /\ szPc' = AfterRead(r[1], r[2])
           /\ szRet' = ReadFailure(AfterRead(r[1], r[2]), r[2])
    /\ UNCHANGED <<szEntry, dataLen, mode, szCommit, szReader, szOffset,
                   szCalls>>
    /\ UNCHANGED <<authVars, upVars, toolVars>>

\* Lines 178-185 and 187-192.
SizedAppend ==
    /\ szPc = "append"
    /\ \/ /\ szCalls' = Append(szCalls,
                SizedCall("append", szOffset, szN, NoSzCommit, TRUE))
          /\ szOffset' = NextOffset(szOffset, szN)
          /\ szPc' = AfterChunk(szErr)
          /\ szRet' = ReadFailure(AfterChunk(szErr), szErr)
       \/ /\ szCalls' = Append(szCalls,
                SizedCall("append", szOffset, szN, NoSzCommit, FALSE))
          /\ szRet' = "failed to append chunk"
          /\ szPc' = "done"
          /\ UNCHANGED szOffset
    /\ UNCHANGED <<szEntry, dataLen, mode, szCommit, szReader, rdPos, szN,
                   szErr>>
    /\ UNCHANGED <<authVars, upVars, toolVars>>

\* Lines 195-198.
SizedFinish ==
    /\ szPc = "finish"
    /\ \E ok \in BOOLEAN :
         /\ szCalls' = Append(szCalls,
                              SizedCall("finish", szOffset, 0, szCommit, ok))
         /\ szRet' = IF ok THEN "ok" ELSE "finish failed"
    /\ szPc' = "done"
    /\ UNCHANGED <<szEntry, dataLen, mode, szCommit, szReader, rdPos,
                   szOffset, szN, szErr>>
    /\ UNCHANGED <<authVars, upVars, toolVars>>

SizedNext ==
    \/ UploadCall
    \/ UploadLargeCall
    \/ DirectUpload
    \/ SizedStart
    \/ SizedRead
    \/ SizedAppend
    \/ SizedFinish

\* ------- the Config and the tool calls: config.go 11-98, handlers.go
\* 21-113, part_001 24-53, part_003 80-131

\* Lines 11-17.  ExpiresAt 0 is the zero time.
EmptyConfig ==
    [ClientID |-> "", ClientSecret |-> "", AccessToken |-> "",
     RefreshToken |-> "", ExpiresAt |-> 0]

\* What a config file left by an earlier run can hold.
StoredConfigs ==
    {[ClientID |-> "id0", ClientSecret |-> "sec0", AccessToken |-> a,
      RefreshToken |-> r, ExpiresAt |-> e] :
        a \in {"", "at0"}, r \in {"", "rt0"}, e \in {0, 4, 6, 7}}

\* client_id and client_secret of a dropbox_auth call, after the
\* fallback to the environment.
ClientIDs == {"", "id1"}
ClientSecrets == {"", "sec1"}

\* The tools that call the provider's file and sharing API.  All of them
\* begin with NewClient and return its error as it is; dropbox_list
\* stands for the fourteen.
ApiTools == {"dropbox_list", "dropbox_upload"}

\* handlers.go lines 96-108 and 267-283: the parameters a tool requires
\* to be non-empty; dropbox_list requires none.
Required(t) == IF t = "dropbox_upload" THEN {"path", "content"} ELSE {}

\* The oauth2.Token of an authorization at time t: with a refresh token
\* and an expiry, or with neither.
FlowTokens(t) ==
    {[AccessToken |-> "at1", RefreshToken |-> "rt1", Expiry |-> t + Lifetime],
     [AccessToken |-> "at2", RefreshToken |-> "", Expiry |-> 0]}

\* The oauth2.Token of a refresh at time t: with a new refresh token, or
\* without one and expiring within the minute.
RefreshedTokens(t) ==
    {[AccessToken |-> "at3", RefreshToken |-> "rt3", Expiry |-> t + Lifetime],
     [AccessToken |-> "at4", RefreshToken |-> "", Expiry |-> t + 1]}

ToolInit ==
    /\ toolPc = "start"
    /\ cfg = EmptyConfig
    /\ disk = <<>>
    /\ now = 1
    /\ tool = ""
    /\ args = [ClientID |-> "", ClientSecret |-> ""]
    /\ missing = {}
    /\ cfg0 = EmptyConfig
    /\ disk0 = <<>>
    /\ steps = <<>>
    /\ granted = NoResult
    /\ needs = FALSE
    /\ valid = FALSE
    /\ askedAt = 0
    /\ toolRet = ""

\* Mutant of IsTokenValid: a token is still valid at its expiry.
IsTokenValidAtExpiry(c, t) ==
    IF c.AccessToken = "" THEN FALSE
    ELSE IF c.ExpiresAt = 0 THEN TRUE
    ELSE t <= c.ExpiresAt

\* config.go lines 72-80.
IsTokenValid(c, t) ==
    IF c.AccessToken = "" THEN FALSE
    ELSE IF c.ExpiresAt = 0 THEN TRUE
    ELSE t < c.ExpiresAt

\* Mutant of NeedsRefresh: true at the boundary of five minutes.
NeedsRefreshAtBoundary(c, t) ==
    IF c.RefreshToken = "" THEN FALSE
    ELSE IF c.ExpiresAt = 0 THEN FALSE
    ELSE t + FiveMinutes >= c.ExpiresAt

\* config.go lines 82-90.
NeedsRefresh(c, t) ==
    IF c.RefreshToken = "" THEN FALSE
    ELSE IF c.ExpiresAt = 0 THEN FALSE
    ELSE t + FiveMinutes > c.ExpiresAt

\* Mutant of UpdateTokens: the refresh token is always overwritten.
UpdateTokensOverwrites(c, accessToken, refreshToken, expiresAt) ==
    [c EXCEPT !.AccessToken = accessToken,
              !.RefreshToken = refreshToken,
              !.ExpiresAt = expiresAt]

\* config.go lines 92-98.
UpdateTokens(c, accessToken, refreshToken, expiresAt) ==
    [c EXCEPT !.AccessToken = accessToken,
              !.RefreshToken = IF refreshToken # "" THEN refreshToken ELSE @,
              !.ExpiresAt = expiresAt]

\* config.go lines 27-47: a missing file gives the empty Config.
LoadOf(file) == IF file = <<>> THEN EmptyConfig ELSE file[1]

\* Mutant of SaveOf: nothing is written.
SaveOfNothing(file, c) == file

\* config.go lines 49-70: the file holds the Config.
SaveOf(file, c) == <<c>>

\* handlers.go lines 21-27: NewHandler loads the Config.
Load ==
    /\ toolPc = "start"
    /\ flowPc = "idle"
    /\ upPc = "idle"
    /\ closed = {}
    /\ szPc = "idle"
    /\ \E file \in {<<>>} \cup {<<c>> : c \in StoredConfigs} :
         /\ disk' = file
         /\ cfg' = LoadOf(file)
    /\ toolPc' = "idle"
    /\ UNCHANGED <<now, tool, args, missing, cfg0, disk0, steps, granted, needs, valid,
                   askedAt, toolRet>>
    /\ UNCHANGED <<authVars, upVars, szVars>>

\* The clock.
Tick ==
    /\ toolPc # "start"
    /\ now < MaxTime
    /\ now' = now + 1
    /\ UNCHANGED <<toolPc, cfg, disk, tool, args, missing, cfg0, disk0, steps, granted,
                   needs, valid, askedAt, toolRet>>
    /\ UNCHANGED <<authVars, upVars, szVars>>

\* part_003 lines 80-107 and 420-476: the tool calls come one at a time.
Begin(t) ==
    /\ toolPc \in {"idle", "done"}
    /\ tool' = t
    /\ cfg0' = cfg
    /\ disk0' = disk
    /\ steps' = <<>>
    /\ granted' = NoResult
    /\ needs' = FALSE

Return(r) ==
    /\ toolRet' = r
    /\ toolPc' = "done"

\* Mutant of ParamError: the parameters are not looked at.
ParamErrorIgnored(t, empty) == ""

\* handlers.go lines 278-283 and the like: the error for the first
\* required parameter that is empty, "" when there is none.
ParamError(t, empty) ==
    IF "path" \in empty THEN "path parameter is required"
    ELSE IF "content" \in empty THEN "content parameter is required"
    ELSE ""

\* handlers.go lines 267-289, 96-105 and the like: a tool of the file and
\* sharing API, up to NewClient.
ToolCall(t, empty) ==
    /\ empty \subseteq Required(t)
    /\ Begin(t)
    /\ missing' = empty
    /\ IF ParamError(t, empty) # ""
       THEN Return(ParamError(t, empty))
       ELSE /\ toolPc' = "newclient"
            /\ toolRet' = ""
    /\ valid' = FALSE
    /\ askedAt' = 0
    /\ UNCHANGED <<cfg, disk, now, args>>
    /\ UNCHANGED <<authVars, upVars, szVars>>

\* Mutant of RefreshBranch: NewClient never refreshes.
RefreshBranchSkipped(needed, c) == "valid"

\* part_001 line 25: cfg.NeedsRefresh() && cfg.RefreshToken != "".
RefreshBranch(needed, c) ==
    IF needed /\ c.RefreshToken # "" THEN "refresh" ELSE "valid"

\* part_001 line 25.
NewClient ==
    /\ toolPc = "newclient"
    /\ needs' = NeedsRefresh(cfg, now)
    /\ askedAt' = now
    /\ toolPc' = RefreshBranch(NeedsRefresh(cfg, now), cfg)
    /\ UNCHANGED <<cfg, disk, now, tool, args, missing, cfg0, disk0, steps, granted,
                   valid, toolRet>>
    /\ UNCHANGED <<authVars, upVars, szVars>>

\* Mutant of AfterRefreshError: the refresh is tried again.
AfterRefreshErrorRetry == "refresh"

\* part_001 lines 31-33: the error of auth.RefreshToken is returned.
AfterRefreshError == "done"

\* part_001 lines 26-34: auth.RefreshToken (config.go 257-282), then
\* UpdateTokens with its result.
RefreshTokenCall ==
    /\ toolPc = "refresh"
    /\ \/ \E token \in RefreshedTokens(now) :
            /\ granted' = AuthResultOf(token)
            /\ cfg' = UpdateTokens(cfg, AuthResultOf(token).AccessToken,
                                   AuthResultOf(token).RefreshToken,
                                   AuthResultOf(token).ExpiresAt)
            /\ steps' = steps \o <<"refresh", "update">>
            /\ toolPc' = "save"
            /\ UNCHANGED toolRet
       \/ /\ steps' = Append(steps, "refresh")
          /\ toolRet' = "failed to refresh token"
          /\ toolPc' = AfterRefreshError
          /\ UNCHANGED <<cfg, granted>>
    /\ UNCHANGED <<disk, now, tool, args, missing, cfg0, disk0, needs, valid, askedAt>>
    /\ UNCHANGED <<authVars, upVars, szVars>>

\* part_001 lines 35-37: cfg.Save().
SaveRefreshed ==
    /\ toolPc = "save"
    /\ \/ /\ disk' = SaveOf(disk, cfg)
          /\ steps' = Append(steps, "save")
          /\ toolPc' = "valid"
          /\ UNCHANGED toolRet
       \/ /\ steps' = Append(steps, "save failed")
          /\ Return("failed to save updated config")
          /\ UNCHANGED disk
    /\ UNCHANGED <<cfg, now, tool, args, missing, cfg0, disk0, granted, needs, valid,
                   askedAt>>
    /\ UNCHANGED <<authVars, upVars, szVars>>

\* part_001 lines 40-42.
CheckValid ==
    /\ toolPc = "valid"
    /\ valid' = IsTokenValid(cfg, now)
    /\ askedAt' = now
    /\ steps' = Append(steps, "valid")
    /\ IF IsTokenValid(cfg, now)
       THEN /\ toolPc' = "api"
            /\ UNCHANGED toolRet
       ELSE Return("invalid or expired token")
    /\ UNCHANGED <<cfg, disk, now, tool, args, missing, cfg0, disk0, granted, needs>>
    /\ UNCHANGED <<authVars, upVars, szVars>>

\* handlers.go lines 110-113 and the like: the provider call of the tool
\* with the client of part_001 lines 44-52.
ApiCall ==
    /\ toolPc = "api"
    /\ steps' = Append(steps, "api")
    /\ \E r \in {"ok", "api error"} : Return(r)
    /\ UNCHANGED <<cfg, disk, now, tool, args, missing, cfg0, disk0, granted, needs,
                   valid, askedAt>>
    /\ UNCHANGED <<authVars, upVars, szVars>>

\* handlers.go lines 29-53: dropbox_auth up to the flow.
\* Lines 39-44: an empty parameter is replaced by the environment's
\* value; the environment is read only then.
OrEnv(arg, env) == IF arg = "" THEN env ELSE arg

\* Mutant of CredentialsMissing: only both missing counts.
CredentialsMissingBoth(a) == a.ClientID = "" /\ a.ClientSecret = ""

\* Line 46.
CredentialsMissing(a) == a.ClientID = "" \/ a.ClientSecret = ""

\* The errors StartOAuthFlow returns (config.go lines 143, 148, 241, 250,
\* 253; line 250 hands on what the handler or the server sent).
FlowErrors ==
    {"failed to generate state", "failed to start local server",
     "failed to open browser", "state mismatch", "authorization failed",
     "token exchange failed", "server error", "authentication timeout"}

HandleAuth(id, secret) ==
    /\ Begin("dropbox_auth")
    /\ \E envId \in (IF id = "" THEN ClientIDs ELSE {""}),
          envSecret \in (IF secret = "" THEN ClientSecrets ELSE {""}) :
         args' = [ClientID |-> OrEnv(id, envId),
                  ClientSecret |-> OrEnv(secret, envSecret)]
    /\ missing' = {}
    /\ IF CredentialsMissing(args')
       THEN Return("client_id and client_secret are required")
       ELSE /\ toolPc' = "flow"
            /\ toolRet' = ""
    /\ valid' = FALSE
    /\ askedAt' = 0
    /\ UNCHANGED <<cfg, disk, now>>
    /\ UNCHANGED <<authVars, upVars, szVars>>

\* handlers.go lines 55-62: StartOAuthFlow returns an error, or the
\* AuthResult of its token exchange, with which the Config is filled.
StartOAuthFlowReturns ==
    /\ toolPc = "flow"
    /\ \/ \E token \in FlowTokens(now) :
            /\ granted' = AuthResultOf(token)
            /\ cfg' = UpdateTokens(
                         [cfg EXCEPT !.ClientID = args.ClientID,
                                     !.ClientSecret = args.ClientSecret],
                         AuthResultOf(token).AccessToken,
                         AuthResultOf(token).RefreshToken,
                         AuthResultOf(token).ExpiresAt)
            /\ steps' = steps \o <<"flow", "update">>
            /\ toolPc' = "authsave"
            /\ UNCHANGED toolRet
       \/ /\ steps' = Append(steps, "flow")
          /\ \E e \in FlowErrors : Return("authentication failed: " \o e)
          /\ UNCHANGED <<cfg, granted>>
    /\ UNCHANGED <<disk, now, tool, args, missing, cfg0, disk0, needs, valid, askedAt>>
    /\ UNCHANGED <<authVars, upVars, szVars>>

\* handlers.go lines 64-71.
SaveAuth ==
    /\ toolPc = "authsave"
    /\ \/ /\ disk' = SaveOf(disk, cfg)
          /\ steps' = Append(steps, "save")
          /\ Return("authenticated")
       \/ /\ steps' = Append(steps, "save failed")
          /\ Return("failed to save configuration")
          /\ UNCHANGED disk
    /\ UNCHANGED <<cfg, now, tool, args, missing, cfg0, disk0, granted, needs, valid,
                   askedAt>>
    /\ UNCHANGED <<authVars, upVars, szVars>>

\* handlers.go lines 74-94: dropbox_check_auth, with auth.ValidateToken
\* (config.go 284-306) when the token is valid.
HandleCheckAuth ==
    /\ Begin("dropbox_check_auth")
    /\ valid' = IsTokenValid(cfg, now)
    /\ askedAt' = now
    /\ IF IsTokenValid(cfg, now)
       THEN \E r \in {"authenticated", "token is invalid or expired"} :
               Return(r)
       ELSE Return("not authenticated")
    /\ missing' = {}
    /\ UNCHANGED <<cfg, disk, now, args>>
    /\ UNCHANGED <<authVars, upVars, szVars>>

ToolNext ==
    \/ Load
    \/ Tick
    \/ \E t \in ApiTools, empty \in SUBSET {"path", "content"} :
          ToolCall(t, empty)
    \/ NewClient
    \/ RefreshTokenCall
    \/ SaveRefreshed
    \/ CheckValid
    \/ ApiCall
    \/ \E id \in ClientIDs, secret \in ClientSecrets : HandleAuth(id, secret)
    \/ StartOAuthFlowReturns
    \/ SaveAuth
    \/ HandleCheckAuth

\* ------------------------------------------------------ specification

Init == AuthInit /\ UploadInit /\ SizedInit /\ ToolInit

Next == AuthNext \/ UploadNext \/ SizedNext \/ ToolNext

Spec == Init /\ [][Next]_vars

\* The flow alone, the upload alone.
AuthSpec == Init /\ [][AuthNext]_vars
UploadSpec == Init /\ [][UploadNext]_vars
SizedSpec == Init /\ [][SizedNext]_vars
ToolSpec == Init /\ [][ToolNext]_vars

\* The Go runtime schedules the calling goroutine, and the timer of
\* time.After fires.
AuthFairSpec ==
    /\ Init
    /\ [][AuthNext]_vars
    /\ WF_vars(SelectEval)
    /\ WF_vars(TimerFire)
    /\ WF_vars(CloseAndReturn)

\* ------------------------------------------------------------- claims

\* A running handler goroutine.
Running(i) == reqs[i].pc \in {"exchange", "send_err", "send_res"}

\* The query is a /callback request whose state is not the generated one.
Mismatch(q) == q.path = "/callback" /\ q.state # state

\* The query is a /callback request with the generated state.
Matching(q) == q.path = "/callback" /\ q.state = state

\* C1: a /callback request whose state differs from the generated state
\* signals "state mismatch" and never reaches the token exchange: its
\* goroutine is only ever about to send "state mismatch", what it put on
\* errorChan is "state mismatch", nothing of it is on resultChan, and the
\* flow never takes a success from it.
C1_StateMismatchNoExchange ==
    /\ \A i \in ReqIds :
         (Running(i) /\ Mismatch(reqs[i].q)) =>
            (reqs[i].pc = "send_err" /\ reqs[i].msg = "state mismatch")
    /\ \A k \in 1..Len(errorChan) :
         Mismatch(errorChan[k].q) => errorChan[k].msg = "state mismatch"
    /\ \A k \in 1..Len(resultChan) : ~Mismatch(resultChan[k].q)
    /\ Mismatch(ret.q) => (ret.kind = "error" /\ ret.msg = "state mismatch")

\* C1 witness: the flow has returned "state mismatch" on a request that
\* carried a code, and no exchange was made.
C1_Witness ==
    /\ flowPc = "returned"
    /\ ret.msg = "state mismatch"
    /\ Mismatch(ret.q)
    /\ ret.q.code # ""
    /\ exchanges = 0

\* The outcome the flow returned, as a signal.
Returned ==
    Signal(IF ret.via = "timeout" THEN "timeout" ELSE ret.kind, ret.msg,
           ret.result)

\* C2 (as claimed): the outcome the select returns is the first that
\* occurred among a delivered success, a delivered failure and the
\* timeout.
C2_FirstArrivalWins ==
    (flowPc = "returned" /\ ret.via \in {"resultChan", "errorChan", "timeout"})
        => Returned = first

\* A goroutine that waits to send on a full channel.
BlockedHandler(i) ==
    \/ reqs[i].pc = "send_err" /\ Len(errorChan) = ChanCap
    \/ reqs[i].pc = "send_res" /\ Len(resultChan) = ChanCap

BlockedServe == servePc = "send_err" /\ Len(errorChan) = ChanCap

\* C3 (as claimed): once StartOAuthFlow has returned, no goroutine of the
\* flow is blocked on a send (nothing receives from the channels after
\* the return, so such a goroutine stays blocked for good).
C3_NoGoroutineLeftBlocked ==
    flowPc = "returned" =>
        (~BlockedServe /\ \A i \in ReqIds : ~BlockedHandler(i))

\* C4: every return of StartOAuthFlow leaves no listener open.
C4_ListenerClosedOnReturn ==
    flowPc = "returned" => listener # "open"

\* C4 witness: the browser failed to launch after the listener was bound
\* and served, and the flow returned with the listener closed.
C4_Witness ==
    /\ flowPc = "returned"
    /\ ret.via = "browser"
    /\ servePc = "serving"
    /\ listener = "closed"

\* C5 (as claimed): at most one /callback request is compared against
\* the state and at most one token exchange is made in a flow.
C5_StateConsumedOnce == compared <= 1 /\ exchanges <= 1

\* C6: the flow returns one outcome, set once; a success comes from a
\* /callback request with the generated state and a code, whose exchange
\* succeeded, and carries exactly the three values of that exchange's
\* token; an error carries no result.
C6_Outcome ==
    /\ (flowPc \in {"close", "returned"}) <=> (ret.kind \in {"result", "error"})
    /\ ret.kind = "result" =>
          /\ Matching(ret.q)
          /\ ret.q.code # ""
          /\ ret.token \in OAuthTokens
          /\ ret.result.AccessToken = ret.token.AccessToken
          /\ ret.result.RefreshToken = ret.token.RefreshToken
          /\ ret.result.ExpiresAt = ret.token.Expiry
          /\ ret.msg = ""
    /\ ret.kind = "error" => (ret.result = NoResult /\ ret.msg # "")

C6_SuccessOnlyFromExchange ==
    /\ []C6_Outcome
    /\ [][ret.kind # "none" => ret' = ret]_vars
    /\ [][flowPc = "returned" => flowPc' = "returned"]_vars

\* C6 witness: the flow returned the token of an exchange that came
\* without a refresh token, after another exchange had been made too.
C6_Witness ==
    /\ flowPc = "returned"
    /\ ret.kind = "result"
    /\ ret.result.AccessToken = "at2"
    /\ exchanges = 2

\* The provider's error text of a query: error_description when
\* non-empty, otherwise error, otherwise empty.
ProviderText(q) ==
    CASE q.error_description # "" -> q.error_description
      [] q.error_description = "" /\ q.error # "" -> q.error
      [] OTHER -> ""

NoCode(q) == Matching(q) /\ q.code = ""

\* C7: a /callback request with the generated state and no code signals
\* "authorization failed: " followed by the provider's error text, never
\* reaches the exchange, and the error the flow returns for it is that
\* one, different from the state-mismatch and the timeout errors.
C7_AuthorizationFailed ==
    /\ \A i \in ReqIds :
         (Running(i) /\ NoCode(reqs[i].q)) =>
            /\ reqs[i].pc = "send_err"
            /\ reqs[i].msg = "authorization failed: " \o ProviderText(reqs[i].q)
    /\ \A k \in 1..Len(errorChan) :
         NoCode(errorChan[k].q) =>
            errorChan[k].msg =
                "authorization failed: " \o ProviderText(errorChan[k].q)
    /\ \A k \in 1..Len(resultChan) : ~NoCode(resultChan[k].q)
    /\ NoCode(ret.q) =>
          /\ ret.kind = "error"
          /\ ret.msg = "authorization failed: " \o ProviderText(ret.q)
          /\ ret.msg \notin {"state mismatch", "authentication timeout"}

\* C7 witness: the flow returned the failure of a request that carried a
\* description and an error; no exchange was made.
C7_Witness ==
    /\ flowPc = "returned"
    /\ NoCode(ret.q)
    /\ ret.q.error_description # ""
    /\ ret.q.error # ""
    /\ ret.msg = "authorization failed: The user denied access"
    /\ exchanges = 0

\* C8: once the browser was launched the flow returns; a return by the
\* timer is the error "authentication timeout" with no result, and that
\* is how the flow returns when no signal was ever delivered.
C8_TimeoutReturns ==
    /\ (flowPc = "select") ~> (flowPc = "returned")
    /\ [](ret.via = "timeout" =>
            /\ ret.kind = "error"
            /\ ret.msg = "authentication timeout"
            /\ ret.result = NoResult)
    /\ []((flowPc = "returned" /\ first.kind \notin {"result", "error"}
             /\ ret.via \notin {"generateState", "listen", "browser"})
            => ret.via = "timeout")

\* C8 witness: the flow returned by the timer after a request to another
\* path, with nothing sent on either channel.
C8_Witness ==
    /\ flowPc = "returned"
    /\ ret.via = "timeout"
    /\ first.kind = "timeout"
    /\ reqs[1].pc = "done"
    /\ compared = 0

\* The successful append calls among the first k calls, in order.
RECURSIVE Appended(_)
Appended(k) ==
    IF k = 0 THEN <<>>
    ELSE IF calls[k].op = "append" /\ calls[k].ok
      THEN Append(Appended(k - 1), calls[k])
    ELSE Appended(k - 1)

\* The total length, and the concatenation, of the data of a sequence of
\* calls.
RECURSIVE SumLen(_)
SumLen(cs) == IF cs = <<>> THEN 0 ELSE Len(Head(cs).data) + SumLen(Tail(cs))

RECURSIVE Concat(_)
Concat(cs) == IF cs = <<>> THEN <<>> ELSE Head(cs).data \o Concat(Tail(cs))

\* C9: every append call and the finish call declare as offset the sum
\* of the lengths of the chunks appended successfully before it; each
\* appended chunk is the part of the source that starts at that offset,
\* and later append calls declare strictly larger offsets.
C9_OffsetIsSumOfAppended ==
    /\ \A k \in 1..Len(calls) :
         calls[k].op \in {"append", "finish"} =>
            calls[k].offset = SumLen(Appended(k - 1))
    /\ \A k \in 1..Len(calls) :
         calls[k].op = "append" =>
            /\ calls[k].data # <<>>
            /\ calls[k].data =
                 SubSeq(source, calls[k].offset + 1,
                        calls[k].offset + Len(calls[k].data))
    /\ \A j, k \in 1..Len(calls) :
         (j < k /\ calls[j].op = "append" /\ calls[k].op = "append") =>
            calls[j].offset < calls[k].offset

\* C9 witness: a finish call follows three append calls, the first of
\* them shorter than the buffer.
C9_Witness ==
    /\ Len(calls) = 5
    /\ calls[5].op = "finish"
    /\ calls[2].op = "append"
    /\ Len(calls[2].data) < chunkSize
    /\ calls[4].offset > chunkSize

\* C10: a finish call is issued only when every byte of the source has
\* been appended exactly once, in order, and it declares the size of the
\* source as offset; an upload that succeeds has issued it.
C10_FinishAtSourceSize ==
    /\ \A k \in 1..Len(calls) :
         calls[k].op = "finish" =>
            /\ k = Len(calls)
            /\ calls[k].offset = Len(source)
            /\ Concat(Appended(k - 1)) = source
    /\ upRet = "ok" =>
          /\ upPc = "done"
          /\ calls # <<>>
          /\ calls[Len(calls)].op = "finish"

\* C10 witness: an upload of more than one chunk, not a multiple of the
\* chunk size, with a read shorter than the buffer and the last bytes
\* read together with io.EOF, has succeeded.
C10_Witness ==
    /\ upRet = "ok"
    /\ Len(source) > chunkSize
    /\ Len(source) % chunkSize # 0
    /\ n > 0
    /\ err = "EOF"
    /\ Len(calls[2].data) < chunkSize

\* Uploads of the other sizes succeed too: the empty source and a source
\* of exactly one chunk.
C10_EmptySourceReached == upRet = "ok" /\ source = <<>> /\ Len(calls) = 2
C10_OneChunkReached == upRet = "ok" /\ Len(source) = chunkSize

\* A finish call is in the history.
FinishIssued == \E k \in 1..Len(calls) : calls[k].op = "finish"

\* A failed provider call ends the upload: it is the last call, and
\* uploadLarge has returned an error.
FailedCallIsLast ==
    \A k \in 1..Len(calls) :
       ~calls[k].ok =>
          /\ k = Len(calls)
          /\ upPc = "done"
          /\ upRet \notin {"", "ok"}

\* C11 (as claimed): a failed append is the last provider call and
\* surfaces as an error, and once a read has failed with an error other
\* than io.EOF uploadLarge has returned that error without any further
\* provider call.
C11_NoCallAfterFailure ==
    /\ FailedCallIsLast
    /\ err = "error" => (upPc = "done" /\ upRet = "failed to read chunk")

\* C11 (amended): a failed append is the last provider call and surfaces
\* as an error; after a read that failed with an error other than io.EOF
\* the only provider call still issued is the append of the bytes that
\* read returned, then the error is returned; no finish call is issued
\* in either case and nothing is called after uploadLarge has returned.
C11_FailureAbortsUpload ==
    /\ [](FailedCallIsLast)
    /\ [](err = "error" =>
            /\ ~FinishIssued
            /\ \/ upPc = "append" /\ n > 0
               \/ /\ upPc = "done"
                  /\ upRet \in {"failed to read chunk",
                                "failed to append chunk"})
    /\ []((upRet = "failed to append chunk") => ~FinishIssued)
    /\ [][(err = "error" /\ calls' # calls /\ upPc # "done") =>
            (upPc = "append" /\ upPc' = "done")]_vars
    /\ [][upPc = "done" => (UNCHANGED upVars \/ UploadReturned)]_vars

\* C11 witness: after a successful append a read returned bytes together
\* with an error; those bytes were appended and the read error returned.
C11_Witness ==
    /\ upPc = "done"
    /\ upRet = "failed to read chunk"
    /\ n > 0
    /\ Len(calls) = 3
    /\ calls[3].ok
    /\ ~FinishIssued

\* An append of the second chunk failed: no finish, the error returned.
C11_AppendFailureReached ==
    /\ upPc = "done"
    /\ upRet = "failed to append chunk"
    /\ Len(calls) = 3
    /\ ~calls[3].ok

\* ---------------------------------------------------------------- C12
\* Sizes in the history of a chunked upload.
SzAppends == {k \in 1..Len(szCalls) : szCalls[k].op = "append"}

SzFinished ==
    /\ szCalls # <<>>
    /\ szCalls[Len(szCalls)].op = "finish"

CeilChunks(len) == (len + ChunkBytes - 1) \div ChunkBytes

Min(a, b) == IF a < b THEN a ELSE b

\* The calls are the start call, then the append calls, then the finish
\* call: the i-th append call, counting from 0, is call i + 2.
AppendsAtMultiples ==
    \A k \in SzAppends :
        /\ k >= 2
        /\ szCalls[k].offset = (k - 2) * 4194304
        /\ szCalls[k].len = Min(4194304, dataLen - szCalls[k].offset)

AppendsContiguous ==
    \A k \in SzAppends :
        /\ k >= 2
        /\ szCalls[k].len > 0
        /\ szCalls[k].offset =
              IF k = 2 THEN 0
              ELSE szCalls[k - 1].offset + szCalls[k - 1].len

\* C12 as stated: for every source whose reads fill the buffer whenever
\* a whole chunk remains, uploadLarge issues exactly ceil(N / 4 MiB)
\* append calls, the i-th at offset i * 4194304, before the finish call
\* at offset N.
C12_ExactlyCeilAppends ==
    /\ AppendsAtMultiples
    /\ SzFinished =>
          /\ Cardinality(SzAppends) = CeilChunks(dataLen)
          /\ szCalls[Len(szCalls)].offset = dataLen

\* C12, amended: the count and the offsets hold for a source that hands
\* over everything that remains in one read once less than a chunk
\* remains, as the bytes.Reader of Upload does: an empty source gives
\* the start call and the finish call at offset 0 only, a source of
\* 200 MiB gives 50 append calls and the finish call at 209715200.  A
\* source that returns the rest in pieces gives more append calls, each
\* at the offset where the previous one ended, and the finish call is
\* still at offset N.
C12_CeilAppendsOnFullReads ==
    /\ szReader = "bytes" =>
          /\ AppendsAtMultiples
          /\ SzFinished =>
                /\ Cardinality(SzAppends) = CeilChunks(dataLen)
                /\ Len(szCalls) = CeilChunks(dataLen) + 2
                /\ szCalls[1].op = "start"
                /\ szCalls[Len(szCalls)].offset = dataLen
          /\ (SzFinished /\ dataLen = 0) =>
                /\ Len(szCalls) = 2
                /\ szCalls[2].offset = 0
          /\ (SzFinished /\ dataLen = 209715200) =>
                /\ Cardinality(SzAppends) = 50
                /\ szCalls[51].offset = 205520896
    /\ AppendsContiguous
    /\ SzFinished =>
          /\ Cardinality(SzAppends) >= CeilChunks(dataLen)
          /\ Cardinality(SzAppends) <= CeilChunks(dataLen) + 1
          /\ szCalls[Len(szCalls)].offset = dataLen

C12_Witness ==
    /\ szPc = "done"
    /\ szRet = "ok"
    /\ szReader = "bytes"
    /\ dataLen = 209715200
    /\ Cardinality(SzAppends) = 50
    /\ szCalls[Len(szCalls)].offset = 209715200

C12_EmptySourceReached ==
    /\ szPc = "done"
    /\ szRet = "ok"
    /\ dataLen = 0
    /\ Len(szCalls) = 2

C12_TailInPiecesReached ==
    /\ szPc = "done"
    /\ szRet = "ok"
    /\ szReader = "short"
    /\ Cardinality(SzAppends) = CeilChunks(dataLen) + 1


\* ---------------------------------------------------------------- C13
SessionOps == {"start", "append", "finish"}

OnChunkedPath ==
    \/ szPc \in {"start", "read", "append", "finish"}
    \/ \E k \in 1..Len(szCalls) : szCalls[k].op \in SessionOps

OnDirectPath ==
    \/ szPc = "direct"
    \/ \E k \in 1..Len(szCalls) : szCalls[k].op = "upload"

Committing == {k \in 1..Len(szCalls) : szCalls[k].op \in {"upload", "finish"}}

\* C13: Upload takes the chunked-session path if and only if the payload
\* is larger than 157286400 bytes; at 157286400 bytes or below it makes
\* the single direct upload call and opens no session; each Upload takes
\* exactly one of the two paths, and the call that commits the file
\* carries the write mode of the mode argument, autorename set and the
\* client-modified time of the commitInfo, on either path.
C13_ChunkedIffAboveThreshold ==
    (szEntry = "Upload") =>
        /\ OnChunkedPath <=> dataLen > 157286400
        /\ OnDirectPath <=> dataLen <= 157286400
        /\ OnDirectPath =>
              /\ Len(szCalls) <= 1
              /\ szPc = "done" => Len(szCalls) = 1
        /\ \A k \in Committing :
              /\ k = Len(szCalls)
              /\ szCalls[k].commit.mode =
                    (IF mode = "overwrite" THEN "overwrite" ELSE "add")
              /\ szCalls[k].commit.autorename
              /\ szCalls[k].commit.clientModified = szCommit.clientModified
              /\ szCommit.clientModified \in ClientModifieds
        /\ szRet = "ok" => Cardinality(Committing) = 1

C13_Witness ==
    /\ szEntry = "Upload"
    /\ dataLen = 157286400
    /\ szPc = "done"
    /\ szRet = "ok"
    /\ mode = "overwrite"
    /\ szCalls[1].op = "upload"

C13_AboveThresholdReached ==
    /\ szEntry = "Upload"
    /\ dataLen = 157286401
    /\ szPc = "done"
    /\ szRet = "ok"
    /\ mode = ""
    /\ szCalls[Len(szCalls)].op = "finish"
    /\ szCalls[Len(szCalls)].commit.mode = "add"


\* ---------------------------------------------------------------- C14
\* The steps of a tool call that refreshed, and of one that did not.
RefreshedSteps == <<"refresh", "update", "save", "valid", "api">>
PlainSteps == <<"valid", "api">>

IsPrefix(s, t) == Len(s) <= Len(t) /\ SubSeq(t, 1, Len(s)) = s

Did(step) == \E k \in 1..Len(steps) : steps[k] = step

PastNeedsRefresh == toolPc \in {"refresh", "save", "valid", "api", "done"}

\* C14: a tool call reaches the provider's file or sharing API only after
\* NewClient has, in this order, refreshed the token once, updated the
\* Config and saved it when NeedsRefresh was true, and then found the
\* resulting Config valid; when it is not valid the tool call returns
\* "invalid or expired token" without a provider call.
C14_ApiAfterRefreshAndValid ==
    /\ [](tool \in ApiTools =>
            /\ \/ IsPrefix(steps, RefreshedSteps)
               \/ IsPrefix(steps, PlainSteps)
               \/ steps = <<"refresh">>
               \/ steps = <<"refresh", "update", "save failed">>
            /\ (PastNeedsRefresh /\ needs) => (steps = <<>> \/ Did("refresh"))
            /\ Did("refresh") => needs
            /\ Did("api") =>
                  /\ valid
                  /\ steps = IF needs THEN RefreshedSteps ELSE PlainSteps
                  /\ toolPc = "done"
            /\ (Did("save") /\ ~Did("valid")) => disk = <<cfg>>
            /\ (Did("valid") /\ ~valid) =>
                  /\ toolPc = "done"
                  /\ toolRet = "invalid or expired token"
                  /\ ~Did("api")
            /\ toolRet = "invalid or expired token" => (Did("valid") /\ ~valid))
    /\ [][toolPc = "valid" /\ toolPc' # "valid" =>
            /\ valid' = IsTokenValid(cfg, now)
            /\ toolPc' = IF valid' THEN "api" ELSE "done"]_vars
    /\ [][toolPc = "api" /\ toolPc' # "api" =>
            /\ steps' = Append(steps, "api")
            /\ cfg' = cfg]_vars

C14_Witness ==
    /\ tool \in ApiTools
    /\ toolPc = "done"
    /\ needs
    /\ steps = RefreshedSteps
    /\ toolRet = "ok"

C14_InvalidTokenReached ==
    /\ tool \in ApiTools
    /\ toolPc = "done"
    /\ needs
    /\ steps = <<"refresh", "update", "save", "valid">>
    /\ toolRet = "invalid or expired token"

C14_NoRefreshReached ==
    /\ tool \in ApiTools
    /\ toolPc = "done"
    /\ ~needs
    /\ cfg.RefreshToken # ""
    /\ steps = PlainSteps


\* ---------------------------------------------------------------- C15
Count(step) == Cardinality({k \in 1..Len(steps) : steps[k] = step})

RefreshHasFailed ==
    /\ tool \in ApiTools
    /\ toolPc = "done"
    /\ steps = <<"refresh">>

\* C15: when the token refresh fails the tool call returns that error,
\* the Config in memory and the config file are as they were when the
\* tool call began, no provider call is made, and the refresh is not
\* tried a second time within the tool call.
C15_RefreshFailureLeavesConfig ==
    /\ [](RefreshHasFailed =>
            /\ toolRet = "failed to refresh token"
            /\ cfg = cfg0
            /\ disk = disk0
            /\ ~Did("api"))
    /\ [](toolRet = "failed to refresh token" => RefreshHasFailed)
    /\ [](tool \in ApiTools => Count("refresh") <= 1)
    /\ [][toolPc = "refresh" /\ steps' = Append(steps, "refresh") =>
            /\ toolPc' = "done"
            /\ cfg' = cfg
            /\ disk' = disk]_vars
    /\ [][RefreshHasFailed => \/ UNCHANGED <<cfg, disk, steps, toolRet>>
                              \/ steps' = <<>>]_vars

C15_Witness ==
    /\ RefreshHasFailed
    /\ toolRet = "failed to refresh token"
    /\ cfg.RefreshToken = "rt0"
    /\ disk = <<cfg>>
    /\ now > 1


\* ---------------------------------------------------------------- C16
\* The step of NewClient that calls UpdateTokens with the refreshed
\* token.
Refreshing == toolPc = "refresh" /\ toolPc' = "save"

\* C16: UpdateTokens with a non-empty new refresh token replaces the
\* stored refresh token, with an empty one it leaves the stored refresh
\* token as it was; either way the access token and the expiry become
\* the new values and the client id and client secret stay.
C16_UpdateTokensFrame ==
    /\ [][Refreshing =>
            /\ granted'.RefreshToken # "" =>
                  cfg'.RefreshToken = granted'.RefreshToken
            /\ granted'.RefreshToken = "" =>
                  cfg'.RefreshToken = cfg.RefreshToken
            /\ cfg'.AccessToken = granted'.AccessToken
            /\ cfg'.ExpiresAt = granted'.ExpiresAt
            /\ cfg'.ClientID = cfg.ClientID
            /\ cfg'.ClientSecret = cfg.ClientSecret]_vars
    /\ [](toolPc = "save" =>
            /\ cfg.RefreshToken =
                  (IF granted.RefreshToken = "" THEN cfg0.RefreshToken
                   ELSE granted.RefreshToken)
            /\ cfg.AccessToken = granted.AccessToken
            /\ cfg.ExpiresAt = granted.ExpiresAt
            /\ cfg.ClientID = cfg0.ClientID
            /\ cfg.ClientSecret = cfg0.ClientSecret)

C16_Witness ==
    /\ toolPc = "save"
    /\ granted.RefreshToken = ""
    /\ granted.AccessToken = "at4"
    /\ cfg0.RefreshToken = "rt0"
    /\ cfg.RefreshToken = "rt0"
    /\ cfg.AccessToken = "at4"
    /\ cfg.ExpiresAt # cfg0.ExpiresAt

C16_ReplacedReached ==
    /\ toolPc = "save"
    /\ granted.RefreshToken = "rt3"
    /\ cfg0.RefreshToken = "rt0"
    /\ cfg.RefreshToken = "rt3"
    /\ cfg.ClientID = "id0"


\* ---------------------------------------------------------------- C17
Authenticated ==
    /\ tool = "dropbox_auth"
    /\ toolPc = "done"
    /\ toolRet = "authenticated"

\* C17: after a successful dropbox_auth the Config holds the client id
\* and client secret of the flow and the access token, refresh token and
\* expiry that the flow's token exchange returned, whatever it held
\* before.
C17_AuthPopulatesConfig ==
    Authenticated =>
        /\ cfg.ClientID = args.ClientID
        /\ cfg.ClientSecret = args.ClientSecret
        /\ cfg.AccessToken = granted.AccessToken
        /\ cfg.RefreshToken = granted.RefreshToken
        /\ cfg.ExpiresAt = granted.ExpiresAt

\* What holds instead: every field but the refresh token is the flow's,
\* and the refresh token is the flow's unless the flow returned none.
C17_AuthKeepsOldRefreshToken ==
    Authenticated =>
        /\ cfg.ClientID = args.ClientID
        /\ cfg.ClientSecret = args.ClientSecret
        /\ cfg.AccessToken = granted.AccessToken
        /\ cfg.ExpiresAt = granted.ExpiresAt
        /\ cfg.RefreshToken =
              (IF granted.RefreshToken = "" THEN cfg0.RefreshToken
               ELSE granted.RefreshToken)

C17_StaleRefreshTokenReached ==
    /\ Authenticated
    /\ granted.RefreshToken = ""
    /\ cfg.RefreshToken = "rt0"
    /\ cfg.ClientID = "id1"
    /\ cfg0.ClientID = "id0"
    /\ disk = <<cfg>>


\* ---------------------------------------------------------------- C18
SaveErrors == {"failed to save updated config", "failed to save configuration"}

\* The tool call has returned and it changed the Config: by a refresh
\* or by an authorization.
ReturnedMutated == toolPc = "done" /\ Did("update")

\* C18: whenever a tool call that changed the Config has returned
\* without a save error, the config file holds the Config in memory,
\* field for field; a Save that fails makes the tool call return an
\* error; and the Config changes in no other way.
C18_SavedAfterMutation ==
    /\ (ReturnedMutated /\ toolRet \notin SaveErrors) =>
          /\ disk # <<>>
          /\ disk[1].ClientID = cfg.ClientID
          /\ disk[1].ClientSecret = cfg.ClientSecret
          /\ disk[1].AccessToken = cfg.AccessToken
          /\ disk[1].RefreshToken = cfg.RefreshToken
          /\ disk[1].ExpiresAt = cfg.ExpiresAt
    /\ Did("save failed") =>
          /\ toolPc = "done"
          /\ toolRet \in SaveErrors
          /\ disk = disk0
          /\ ~Did("api")
    /\ toolRet \in SaveErrors => Did("save failed")
    /\ (toolPc \notin {"start", "idle"} /\ ~Did("update")) =>
          (cfg = cfg0 /\ disk = disk0)

C18_Witness ==
    /\ ReturnedMutated
    /\ tool \in ApiTools
    /\ toolRet = "ok"
    /\ cfg # cfg0
    /\ disk0 # <<cfg0>>
    /\ disk = <<cfg>>

C18_SaveFailureReached ==
    /\ ReturnedMutated
    /\ tool = "dropbox_auth"
    /\ toolRet = "failed to save configuration"
    /\ disk # <<cfg>>


\* ---------------------------------------------------------------- C19
\* IsTokenValid has returned in this tool call, at time askedAt and on
\* the Config as it still is.
JustValidated ==
    \/ tool \in ApiTools /\ Did("valid")
    \/ tool = "dropbox_check_auth" /\ toolPc = "done"

\* C19: IsTokenValid is true exactly when the access token is non-empty
\* and the expiry is unset or the current time is strictly before it;
\* so it is false for every Config with an empty access token and true
\* for every Config with an access token and no expiry, at any time.
C19_ValidIffTokenAndNotExpired ==
    JustValidated =>
        /\ valid <=> /\ cfg.AccessToken # ""
                     /\ \/ cfg.ExpiresAt = 0
                        \/ askedAt < cfg.ExpiresAt
        /\ cfg.AccessToken = "" => ~valid
        /\ (cfg.AccessToken # "" /\ cfg.ExpiresAt = 0) => valid

C19_Witness ==
    /\ JustValidated
    /\ cfg.AccessToken # ""
    /\ cfg.ExpiresAt = askedAt
    /\ ~valid

C19_NoExpiryReached ==
    /\ JustValidated
    /\ cfg.AccessToken # ""
    /\ cfg.ExpiresAt = 0
    /\ askedAt = MaxTime
    /\ valid

C19_EmptyTokenReached ==
    /\ JustValidated
    /\ cfg.AccessToken = ""
    /\ cfg.ExpiresAt > askedAt
    /\ ~valid

C19_LastMinuteReached ==
    /\ JustValidated
    /\ cfg.ExpiresAt = askedAt + 1
    /\ valid

\* ---------------------------------------------------------------- C20
\* NeedsRefresh has returned in this tool call, at time askedAt and on
\* the Config as it still is.
JustAsked ==
    /\ tool \in ApiTools
    /\ toolPc \in {"refresh", "valid"}
    /\ steps = <<>>

HasRefreshTokenAndExpiry == cfg.RefreshToken # "" /\ cfg.ExpiresAt # 0

\* C20 as stated: with a refresh token and an expiry E, NeedsRefresh is
\* false when E is more than 5 minutes after the current time and true
\* when E is at most 5 minutes after it, the boundary included, or past.
C20_RefreshWithinFiveMinutes ==
    (JustAsked /\ HasRefreshTokenAndExpiry) =>
        /\ cfg.ExpiresAt - askedAt > 5 => ~needs
        /\ cfg.ExpiresAt - askedAt <= 5 => needs

\* C20, amended: with a refresh token and an expiry E, NeedsRefresh is
\* false when E is 5 minutes or more after the current time, the exact
\* boundary of 5 minutes included, and true when E is less than 5
\* minutes after it or past; without a refresh token or without an
\* expiry it is false.
C20_RefreshInsideFiveMinutes ==
    JustAsked =>
        /\ HasRefreshTokenAndExpiry =>
              /\ cfg.ExpiresAt - askedAt >= 5 => ~needs
              /\ cfg.ExpiresAt - askedAt < 5 => needs
        /\ ~HasRefreshTokenAndExpiry => ~needs
        /\ needs <=> toolPc = "refresh"

C20_Witness ==
    /\ JustAsked
    /\ HasRefreshTokenAndExpiry
    /\ cfg.ExpiresAt = askedAt + 5
    /\ ~needs

C20_InsideReached ==
    /\ JustAsked
    /\ HasRefreshTokenAndExpiry
    /\ cfg.ExpiresAt = askedAt + 4
    /\ needs

C20_PastReached ==
    /\ JustAsked
    /\ HasRefreshTokenAndExpiry
    /\ cfg.ExpiresAt < askedAt
    /\ needs

C20_BeyondReached ==
    /\ JustAsked
    /\ HasRefreshTokenAndExpiry
    /\ cfg.ExpiresAt = askedAt + 6
    /\ ~needs


\* ---------------------------------------------------------------- C21
ParamErrors == {"path parameter is required", "content parameter is required"}

\* The tool call was made without a parameter that the tool requires.
LacksRequired ==
    /\ tool \in ApiTools
    /\ toolPc # "idle"
    /\ missing # {}

\* What later tool calls depend on: the Config, the config file and
\* whether the server is between two tool calls.
Between == toolPc \in {"idle", "done"}

\* C21: a tool call without a required parameter returns an error at
\* once, refreshes no token, calls no provider API and leaves the Config
\* in memory and the config file as they were; the server is then where
\* it was before that call, so later tool calls are not affected.
C21_MissingParameterRejected ==
    /\ [](LacksRequired =>
            /\ toolPc = "done"
            /\ toolRet \in ParamErrors
            /\ steps = <<>>
            /\ ~needs
            /\ ~valid
            /\ cfg = cfg0
            /\ disk = disk0)
    /\ [](toolRet \in ParamErrors => LacksRequired)
    /\ [][missing' # {} /\ missing' # missing =>
            /\ Between
            /\ Between'
            /\ cfg' = cfg
            /\ disk' = disk
            /\ now' = now]_vars
    /\ []((tool = "dropbox_upload" /\ toolPc = "newclient") => missing = {})

C21_Witness ==
    /\ LacksRequired
    /\ tool = "dropbox_upload"
    /\ missing = {"content"}
    /\ toolRet = "content parameter is required"
    /\ NeedsRefresh(cfg, now)
    /\ cfg.RefreshToken # ""
    /\ disk = <<cfg>>

C21_LaterCallReached ==
    /\ tool = "dropbox_upload"
    /\ missing = {}
    /\ toolPc = "done"
    /\ toolRet = "ok"
    /\ steps = RefreshedSteps
    /\ cfg0.RefreshToken = "rt0"


\* ---------------------------------------------------------------- C22
\* Request i was on a path other than /callback.
OtherPath(i) == reqs[i].q.path \notin {"", "/callback"}

\* A step in which the goroutine of request i answers not-found.
AnswersNotFound(i) == reqs[i].pc = "new" /\ reqs'[i].status = 404

\* C22: a request on a path other than /callback is answered with
\* not-found and changes nothing of the flow: nothing is sent on either
\* channel, no exchange is made, nothing of the request reaches the
\* caller, and the flow goes on waiting as it was.
C22_OtherPathNotFound ==
    /\ [](\A i \in ReqIds :
            /\ OtherPath(i) =>
                  /\ reqs[i].pc = "done"
                  /\ reqs[i].status = 404
                  /\ reqs[i].token = NoToken
                  /\ reqs[i].msg = ""
            /\ reqs[i].status = 404 => OtherPath(i))
    /\ [](/\ \A k \in 1..Len(errorChan) :
                errorChan[k].q.path \in {"", "/callback"}
          /\ \A k \in 1..Len(resultChan) :
                resultChan[k].q.path = "/callback"
          /\ ret.q.path \in {"", "/callback"})
    /\ [][\A i \in ReqIds : AnswersNotFound(i) =>
            UNCHANGED <<flowPc, state, listener, inShutdown, servePc,
                        resultChan, errorChan, timer, ret, first, compared,
                        exchanges>>]_vars

C22_Witness ==
    /\ OtherPath(1)
    /\ reqs[1].status = 404
    /\ reqs[1].q.state = state
    /\ reqs[1].q.code = "c1"
    /\ flowPc = "returned"
    /\ ret.kind = "result"
    /\ ret.via = "resultChan"
    /\ reqs[2].status = 200
    /\ exchanges = 1

C22_StillWaitingReached ==
    /\ OtherPath(1)
    /\ flowPc = "blocked"
    /\ reqs[2].pc = "new"
    /\ errorChan = <<>>
    /\ resultChan = <<>>
    /\ exchanges = 0



\* ------------------------------------------------------------- C23

\* The provider calls of the running uploadLarge are a start, then
\* appends, then at most one finish, which is the last call.
StartAppendsFinish ==
    /\ calls # <<>> => calls[1].op = "start"
    /\ \A k \in 2..Len(calls) :
          /\ calls[k].op \in {"append", "finish"}
          /\ calls[k].op = "finish" => k = Len(calls)
          /\ calls[k - 1].ok
    /\ upPc \in {"read", "append", "finish"} => calls # <<>>

\* Every append and finish names the session the start call returned.
UsesReturnedSession ==
    \A k \in 2..Len(calls) :
       /\ sessionId \in SessionIds
       /\ calls[k].sid = sessionId

\* No provider call of the running uploadLarge names the session of an
\* Upload call that has returned.
NoSessionReused ==
    /\ sessionId \notin closed
    /\ \A k \in 1..Len(calls) : calls[k].sid \notin closed

\* C23: in every execution of uploadLarge the provider calls form the
\* sequence start, append*, finish?: one start call comes first, every
\* append and the finish use the session id that start returned, finish
\* is issued at most once and only after the source reported io.EOF,
\* nothing is called after finish or after a failed call, and the
\* session is used by no later Upload call.
C23_StartAppendsFinish ==
    /\ [](StartAppendsFinish)
    /\ [](UsesReturnedSession)
    /\ [](FinishIssued => /\ err = "EOF"
                          /\ pos = Len(source)
                          /\ upPc = "done")
    /\ [](NoSessionReused)
    /\ [][calls' # calls =>
            \/ /\ UploadReturned
               /\ \A k \in 2..Len(calls) : calls[k].sid \in closed'
            \/ /\ Len(calls') = Len(calls) + 1
               /\ SubSeq(calls', 1, Len(calls)) = calls
               /\ ~FinishIssued
               /\ \A k \in 1..Len(calls) : calls[k].ok]_vars

\* C23 witness: a second Upload call has run start, two appends and the
\* finish on its own session after the first call's session was closed.
C23_Witness ==
    /\ closed = {"sid1"}
    /\ sessionId = "sid2"
    /\ upRet = "ok"
    /\ Len(calls) = 4
    /\ calls[2].sid = "sid2"
    /\ calls[4].op = "finish"
    /\ calls[4].sid = "sid2"

\* Both sessions the provider can open have been used, each by one call.
C23_BothSessionsReached == closed = SessionIds /\ upPc = "done"



\* ------------------------------------------------------------- C24

\* The five fields of a Config.
ConfigFields ==
    {"ClientID", "ClientSecret", "AccessToken", "RefreshToken", "ExpiresAt"}

\* The Config in memory and the config file are what they were when the
\* tool was called, field by field.
CredentialUntouched ==
    /\ \A f \in ConfigFields : cfg[f] = cfg0[f]
    /\ Len(disk) = Len(disk0)
    /\ \A k \in 1..Len(disk) : \A f \in ConfigFields : disk[k][f] = disk0[k][f]

\* dropbox_auth has returned an error of the flow or of the missing
\* credentials.
AuthFailedBeforeTokens ==
    /\ tool = "dropbox_auth"
    /\ toolPc = "done"
    /\ \/ toolRet = "client_id and client_secret are required"
       \/ \E e \in {"failed to generate state", "failed to start local server",
                    "failed to open browser", "state mismatch",
                    "authorization failed", "token exchange failed",
                    "server error", "authentication timeout"} :
             toolRet = "authentication failed: " \o e

\* C24: when dropbox_auth fails before the flow yields tokens, whatever
\* the reason, the Config in memory and the config file are unchanged in
\* all five fields, client id and client secret included; nothing is
\* changed while the flow runs either; and when the client id or the
\* client secret is missing no flow is started.
C24_FailedAuthLeavesCredential ==
    /\ [](AuthFailedBeforeTokens => (CredentialUntouched /\ granted = NoResult))
    /\ []((tool = "dropbox_auth" /\ toolPc = "flow") => CredentialUntouched)
    /\ []((tool = "dropbox_auth"
             /\ (args.ClientID = "" \/ args.ClientSecret = "")) =>
            /\ toolPc = "done"
            /\ steps = <<>>
            /\ toolRet = "client_id and client_secret are required"
            /\ CredentialUntouched)
    /\ [][(tool = "dropbox_auth" /\ toolPc = "flow"
             /\ toolRet' \notin {"", "authenticated"}
             /\ toolPc' = "done") =>
            (cfg' = cfg /\ disk' = disk)]_vars

\* C24 witness: dropbox_auth was called with another client id and
\* secret than the stored ones, the flow ran and timed out, and the
\* Config and the file still hold the stored credentials and tokens.
C24_Witness ==
    /\ tool = "dropbox_auth"
    /\ toolPc = "done"
    /\ toolRet = "authentication failed: authentication timeout"
    /\ steps = <<"flow">>
    /\ args.ClientID = "id1"
    /\ args.ClientSecret = "sec1"
    /\ cfg.ClientID = "id0"
    /\ cfg.ClientSecret = "sec0"
    /\ cfg.AccessToken = "at0"
    /\ disk = <<cfg>>

\* The client secret was missing and the call returned without a flow.
C24_NoFlowReached ==
    /\ tool = "dropbox_auth"
    /\ toolPc = "done"
    /\ args.ClientID = "id1"
    /\ args.ClientSecret = ""
    /\ steps = <<>>
    /\ cfg.ClientID = "id0"

====
